---- MODULE Spec2Model ----
(***************************************************************************)
(* The downstream-apply executor of tidb-binlog's loader: the retry        *)
(* driver, execTableBatch's merge / delete bucket / replace buckets, the   *)
(* errgroup fan-out of splitExecDML, the transactions of bulkDelete,       *)
(* bulkReplace and singleExec, begin's loopback mark update and the        *)
(* ExecutorExtend hook chain, against a downstream of rows and mark rows.  *)
(***************************************************************************)
EXTENDS Integers, Sequences, FiniteSets, TLC

\* ------------------------------------------------------------------ bounds
NumKeys == 3
MaxLen == 3
MaxBatchSize == 2
MaxRetry == 2
MaxWorkers == 2
MaxRecordID == 2
MaxFaults == 2
MaxLenLoopback == 2
MaxFaultsLoopback == 1
MaxApply == 3
MaxTxnDMLs == 2
MaxSyncTxns == 3
SuccessCap == 1

VARIABLES
    allDMLs,    \* the input DML list of the call
    e,          \* the executor: batchSize, workerCount
    info,       \* the LoopBackSync: LoopbackControl, SupportPlugin, Hooks, Index, RecordID
    call,       \* the call: fn (which entry point), retryNum, safeMode
    ctxDone,    \* the caller's context is cancelled
    pc,         \* position of the calling goroutine
    attempt,    \* attempts of fn started by the current RetryContext
    batchIdx,   \* singleExecRetry: index of the batch being applied
    phase,      \* the bucket being fanned out: "del", "ins", "upd"; or "single"
    tasks,      \* the goroutines of the current errgroup (singleExec: the one call)
    errg,       \* the errgroup's error: the first one a task returned
    lastErr,    \* the error of the last attempt of fn
    result,     \* what the call returned
    runs,       \* every bulkDelete / bulkReplace / singleExec invocation, with its transaction
    db,         \* downstream rows: key -> value, 0 when absent
    markTable,  \* downstream mark table: id -> val
    faults,     \* failures the downstream may still inject
    barrier,    \* what the last splitExecDML returned, and the tasks it had then
    hist,       \* where the call was when the context was cancelled, and whether
                \* a first attempt or a retry was started since
    applied,    \* redelivery: how often the input was applied, the rows before the
                \* first application and after it
    drift,      \* schema-drift recovery: a DML's cached columns and values, the
                \* refreshed columns, and how far the recovery got
    filter,     \* the loader's filter hook: the Txn handed to FilterTxn and its result
    syncer      \* the MysqlSyncer: its loader, the goroutines of run, and Close

vars == <<allDMLs, e, info, call, ctxDone, pc, attempt, batchIdx, phase, tasks,
          errg, lastErr, result, runs, db, markTable, faults, barrier, hist,
          applied, drift, filter, syncer>>

\* the state outside the executor's calls
side == <<applied, drift, filter, syncer>>

Keys == 1..NumKeys
InsertDMLType == "Insert"
UpdateDMLType == "Update"
DeleteDMLType == "Delete"
DMLTypes == {InsertDMLType, UpdateDMLType, DeleteDMLType}

\* errors are <<kind, run>>: the kind of failure and the invocation it came from
Nil == <<"nil", 0>>
CtxErr == <<"context canceled", 0>>
MergeErr == <<"merge conflict", 0>>
Err(kind, r) == <<kind, r>>

\* A DML: op type, primary key, and the post-image, which is the DML's position
\* in the input (every DML carries its own values).
\* Keys are numbered in the order the input first mentions them.
FirstMention(f, n) ==
    \A i \in 1..n : \/ f[i][2] = 1
                    \/ \E j \in 1..(i - 1) : f[j][2] >= f[i][2] - 1
DMLsOfLen(n) ==
    { [i \in 1..n |-> [Tp |-> f[i][1], key |-> f[i][2], val |-> i]] :
        f \in { g \in [1..n -> DMLTypes \X Keys] : FirstMention(g, n) } }
Inputs == UNION { DMLsOfLen(n) : n \in 0..MaxLen }

Min(a, b) == IF a < b THEN a ELSE b

\* ------------------------------------------------ splitter and key-merger
\* splitDMLs(dmls, N): contiguous chunks of up to N, in input order
RECURSIVE splitDMLs(_, _)
splitDMLs(dmls, n) ==
    IF Len(dmls) = 0 THEN << >>
    ELSE LET k == Min(n, Len(dmls))
         IN  <<SubSeq(dmls, 1, k)>> \o splitDMLs(SubSeq(dmls, k + 1, Len(dmls)), n)

\* a merge that keeps the Delete after an Insert of the same key
CollapseKeepDelete(prior, next) ==
    CASE prior = "none" -> next
      [] prior = InsertDMLType /\ next = UpdateDMLType -> InsertDMLType
      [] prior = InsertDMLType /\ next = DeleteDMLType -> DeleteDMLType
      [] prior = UpdateDMLType /\ next = UpdateDMLType -> UpdateDMLType
      [] prior = UpdateDMLType /\ next = DeleteDMLType -> DeleteDMLType
      [] prior = DeleteDMLType /\ next = InsertDMLType -> UpdateDMLType
      [] OTHER -> "conflict"

\* the collapse table: the state of a key after the next operation on it
\* ("none" is the empty state, "conflict" an impossible sequence)
Collapse(prior, next) ==
    CASE prior = "none" -> next
      [] prior = InsertDMLType /\ next = UpdateDMLType -> InsertDMLType
      [] prior = InsertDMLType /\ next = DeleteDMLType -> "none"
      [] prior = UpdateDMLType /\ next = UpdateDMLType -> UpdateDMLType
      [] prior = UpdateDMLType /\ next = DeleteDMLType -> DeleteDMLType
      [] prior = DeleteDMLType /\ next = InsertDMLType -> UpdateDMLType
      [] OTHER -> "conflict"

\* the per-key state after scanning dmls in input order
RECURSIVE MergeScan(_, _)
MergeScan(dmls, m) ==
    IF Len(dmls) = 0 THEN m
    ELSE LET d == Head(dmls)
             tp == Collapse(m[d.key].Tp, d.Tp)
         IN  IF m[d.key].Tp = "conflict" \/ tp = "conflict"
             THEN MergeScan(Tail(dmls), [m EXCEPT ![d.key] = [Tp |-> "conflict", val |-> 0]])
             ELSE MergeScan(Tail(dmls), [m EXCEPT ![d.key] = [Tp |-> tp, val |-> d.val]])

MergeState(dmls) == MergeScan(dmls, [k \in Keys |-> [Tp |-> "none", val |-> 0]])

\* the survivors of one op type, in key order
RECURSIVE Survivors(_, _, _)
Survivors(m, tp, k) ==
    IF k > NumKeys THEN << >>
    ELSE (IF m[k].Tp = tp THEN <<[Tp |-> tp, key |-> k, val |-> m[k].val]>> ELSE << >>)
         \o Survivors(m, tp, k + 1)

\* mergeByPrimaryKey(dmls): [err, types], types mapping each op type to its bucket
mergeByPrimaryKey(dmls) ==
    LET m == MergeState(dmls)
    IN  IF \E k \in Keys : m[k].Tp = "conflict"
        THEN [err |-> MergeErr, types |-> [tp \in DMLTypes |-> << >>]]
        ELSE [err |-> Nil, types |-> [tp \in DMLTypes |-> Survivors(m, tp, 1)]]

\* --------------------------------------------------------------- statements
\* dml.sql(): the DML's own plain statement
sql(dml) ==
    [op |-> CASE dml.Tp = InsertDMLType -> "INSERT"
              [] dml.Tp = UpdateDMLType -> "UPDATE"
              [] OTHER -> "DELETE",
     key |-> dml.key, val |-> dml.val]
deleteSQL(dml) == [op |-> "DELETE", key |-> dml.key, val |-> dml.val]
replaceSQL(dml) == [op |-> "REPLACE", key |-> dml.key, val |-> dml.val]

\* bulkDelete's query: every delete's own statement, joined by ';', one Exec
bulkDeleteQueries(deletes) == << [i \in 1..Len(deletes) |-> sql(deletes[i])] >>

\* bulkReplace's query: one REPLACE INTO with a row per DML, one Exec
bulkReplaceQueries(inserts) == << [i \in 1..Len(inserts) |-> replaceSQL(inserts[i])] >>

\* singleExec without the safe-mode rewrites: every DML's own statement
singleExecQueriesPlain(dmls, safeMode) == [i \in 1..Len(dmls) |-> <<sql(dmls[i])>>]

\* singleExec with the pre-image DELETE of a safe-mode Update left out
RECURSIVE singleExecQueriesNoDelete(_, _)
singleExecQueriesNoDelete(dmls, safeMode) ==
    IF Len(dmls) = 0 THEN << >>
    ELSE LET dml == Head(dmls)
             qs == IF safeMode /\ dml.Tp # DeleteDMLType
                   THEN << <<replaceSQL(dml)>> >>
                   ELSE << <<sql(dml)>> >>
         IN  qs \o singleExecQueriesNoDelete(Tail(dmls), safeMode)

\* singleExec's queries: one Exec per statement, DML by DML in input order
RECURSIVE singleExecQueries(_, _)
singleExecQueries(dmls, safeMode) ==
    IF Len(dmls) = 0 THEN << >>
    ELSE LET dml == Head(dmls)
             qs == IF safeMode /\ dml.Tp = UpdateDMLType
                   THEN << <<deleteSQL(dml)>>, <<replaceSQL(dml)>> >>
                   ELSE IF safeMode /\ dml.Tp = InsertDMLType
                   THEN << <<replaceSQL(dml)>> >>
                   ELSE << <<sql(dml)>> >>
         IN  qs \o singleExecQueries(Tail(dmls), safeMode)

Queries(fn, dmls, safeMode) ==
    CASE fn = "bulkDelete" -> bulkDeleteQueries(dmls)
      [] fn = "bulkReplace" -> bulkReplaceQueries(dmls)
      [] OTHER -> singleExecQueries(dmls, safeMode)

\* the downstream's rows after a committed statement
ApplyStmt(rows, s) ==
    CASE s.op = "DELETE" -> [rows EXCEPT ![s.key] = 0]
      [] s.op = "UPDATE" -> IF rows[s.key] = 0 THEN rows ELSE [rows EXCEPT ![s.key] = s.val]
      [] OTHER -> [rows EXCEPT ![s.key] = s.val]

RECURSIVE ApplyAll(_, _)
ApplyAll(rows, stmts) ==
    IF Len(stmts) = 0 THEN rows ELSE ApplyAll(ApplyStmt(rows, Head(stmts)), Tail(stmts))

\* the mark table after a committed transaction's mark updates
RECURSIVE ApplyMarks(_, _)
ApplyMarks(mt, marks) ==
    IF Len(marks) = 0 THEN mt
    ELSE ApplyMarks([mt EXCEPT ![Head(marks)] = @ + 1], Tail(marks))

\* ------------------------------------------------------------ transactions
\* the ids of the mark table's pre-seeded rows
MarkRows == 0..(info.RecordID - 1)

\* UPDATE mark SET val = val + 1 WHERE id = ?: TRUE when it updated a row;
\* it fails when the downstream fails it or when no row has the id
UpdateMark(id, f) ==
    (IF id \in MarkRows THEN {[ok |-> TRUE, faults |-> f]} ELSE {[ok |-> FALSE, faults |-> f]})
    \cup (IF f > 0 THEN {[ok |-> FALSE, faults |-> f - 1]} ELSE {})

\* the id of a begin that updates no mark row
NoMark == 0 - 1

\* begin with the return after a failed mark update left out: the handle of
\* the transaction is returned all the same
beginKeepsTx(index, f, r) ==
    LET idx == index + 1
        id == idx % e.workerCount
    IN  IF ~info.isNil /\ info.LoopbackControl
        THEN { [tx |-> TRUE, st |-> "open", marks |-> IF u.ok THEN <<id>> ELSE << >>,
                markFailed |-> ~u.ok, Index |-> idx, faults |-> u.faults, err |-> Nil,
                id |-> id]
               : u \in UpdateMark(id, f) }
        ELSE {[tx |-> TRUE, st |-> "open", marks |-> << >>, markFailed |-> FALSE,
               Index |-> index, faults |-> f, err |-> Nil, id |-> NoMark]}

\* e.begin(): the outcomes of db.Begin() and the loopback mark update.
\* tx: a handle is returned; st: the state of the sql transaction
begin(index, f, r) ==
    (IF f > 0
     THEN {[tx |-> FALSE, st |-> "none", marks |-> << >>, markFailed |-> FALSE,
            Index |-> index, faults |-> f - 1, err |-> Err("begin", r), id |-> NoMark]}
     ELSE {})
    \cup
    (IF ~info.isNil /\ info.LoopbackControl
     THEN LET idx == index + 1
              id == idx % e.workerCount
          IN  { IF u.ok
                THEN [tx |-> TRUE, st |-> "open", marks |-> <<id>>, markFailed |-> FALSE,
                      Index |-> idx, faults |-> u.faults, err |-> Nil, id |-> id]
                ELSE [tx |-> FALSE, st |-> "rolledback", marks |-> << >>,
                      markFailed |-> TRUE, Index |-> idx, faults |-> u.faults,
                      err |-> Err("failed to update mark data", r), id |-> id]
                : u \in UpdateMark(id, f) }
     ELSE {[tx |-> TRUE, st |-> "open", marks |-> << >>, markFailed |-> FALSE,
            Index |-> index, faults |-> f, err |-> Nil, id |-> NoMark]})

\* addIndex(info): the next index, and the mark row the plugin updates
addIndex(index) == (index + 1) % info.RecordID

\* Plugin.ExtendTxn(tx, info): the loopback plugin's own mark update on tx.
\* s: [st, marks, Index, faults, calls, err]
ExtendTxn(s) ==
    LET id == addIndex(s.Index)
        c == [s EXCEPT !.Index = s.Index + 1, !.calls = Append(s.calls, "loopback")]
    IN  (IF id \in MarkRows
         THEN {[c EXCEPT !.marks = Append(s.marks, id)]}
         ELSE {[c EXCEPT !.st = "rolledback", !.marks = << >>, !.err = "affected rows is zero"]})
        \cup
        (IF s.faults > 0
         THEN {[c EXCEPT !.st = "rolledback", !.marks = << >>, !.faults = s.faults - 1,
                         !.err = "fail to update mark"]}
         ELSE {})

\* any other registered ExecutorExtend: returns nil or an error, tx untouched
AuxExtendTxn(s) ==
    LET c == [s EXCEPT !.calls = Append(s.calls, "aux")]
    IN  {c} \cup (IF s.faults > 0
                  THEN {[c EXCEPT !.faults = s.faults - 1, !.err = "aux hook failed"]}
                  ELSE {})

\* hook.Range(...): the hooks in turn, stopping at the first error
RECURSIVE HookRange(_, _)
HookRange(hooks, s) ==
    IF Len(hooks) = 0 THEN {s}
    ELSE UNION { IF h.err = "" THEN HookRange(Tail(hooks), h) ELSE {h}
                 : h \in (IF Head(hooks) = "loopback" THEN ExtendTxn(s) ELSE AuxExtendTxn(s)) }

\* the hook chain of bulkDelete / bulkReplace / singleExec after begin
ExtendChain(s) == IF info.SupportPlugin THEN HookRange(info.Hooks, s) ELSE {s}

\* autoRollbackExec with the Rollback left out
autoRollbackExecNoRollback(st, f) ==
    IF st # "open"
    THEN {[ok |-> FALSE, st |-> st, faults |-> f]}
    ELSE {[ok |-> TRUE, st |-> "open", faults |-> f]}
         \cup (IF f > 0 THEN {[ok |-> FALSE, st |-> "open", faults |-> f - 1]} ELSE {})

\* tx.autoRollbackExec(query): on a live transaction the query succeeds or
\* fails and the transaction is rolled back; on a finished one Exec fails
\* (sql.ErrTxDone) and the Rollback changes nothing
autoRollbackExec(st, f) ==
    IF st # "open"
    THEN {[ok |-> FALSE, st |-> st, faults |-> f]}
    ELSE {[ok |-> TRUE, st |-> "open", faults |-> f]}
         \cup (IF f > 0 THEN {[ok |-> FALSE, st |-> "rolledback", faults |-> f - 1]} ELSE {})

\* the queries of one invocation in turn, returning at the first error.
\* s: [st, issued, stmts, ok, faults]
RECURSIVE ExecQueries(_, _)
ExecQueries(qs, s) ==
    IF Len(qs) = 0 THEN {s}
    ELSE UNION { IF o.ok
                 THEN ExecQueries(Tail(qs), [s EXCEPT !.issued = s.issued \o Head(qs),
                                                      !.stmts = s.stmts \o Head(qs),
                                                      !.faults = o.faults])
                 ELSE {[s EXCEPT !.st = o.st, !.issued = s.issued \o Head(qs),
                                 !.stmts = << >>, !.ok = FALSE, !.faults = o.faults]}
                 : o \in autoRollbackExec(s.st, s.faults) }

\* tx.commit(): commits a live transaction unless the downstream fails it;
\* on a finished transaction Commit fails (sql.ErrTxDone)
commit(st, f) ==
    IF st # "open"
    THEN {[ok |-> FALSE, st |-> st, faults |-> f]}
    ELSE {[ok |-> TRUE, st |-> "committed", faults |-> f]}
         \cup (IF f > 0 THEN {[ok |-> FALSE, st |-> "commitfailed", faults |-> f - 1]} ELSE {})

\* -------------------------------------------------------------------- state
Running == <<"running", 0>>

\* a nil pointer dereference: the goroutine panics and the process ends
Panic == <<"panic", 0>>

\* the configurations of the loopback protocol the executor is set up with
HookChains == { << >>, <<"loopback">>, <<"aux", "loopback">> }

LoopbackOff ==
    [isNil |-> FALSE, LoopbackControl |-> FALSE, SupportPlugin |-> FALSE, Hooks |-> << >>,
     Index |-> 0, RecordID |-> 1]

\* the executor's info when setSyncInfo was never called: a nil pointer
NilSyncInfo ==
    [isNil |-> TRUE, LoopbackControl |-> FALSE, SupportPlugin |-> FALSE, Hooks |-> << >>,
     Index |-> 0, RecordID |-> 1]

\* every setting of the loopback protocol: LoopbackControl, SupportPlugin with
\* its registered ExecutorExtend hooks, the mark rows, the worker count
LoopbackConfigs ==
    { [e |-> [workerCount |-> w],
       info |-> [isNil |-> FALSE, LoopbackControl |-> lc, SupportPlugin |-> sp[1],
                 Hooks |-> sp[2], Index |-> 0, RecordID |-> rid]] :
        w \in 1..MaxWorkers, rid \in 1..MaxRecordID, lc \in BOOLEAN,
        sp \in ({FALSE} \X {<< >>}) \cup ({TRUE} \X HookChains) }

Calls ==
    [fn : {"execTableBatchRetry"}, retryNum : 1..MaxRetry, safeMode : {FALSE}]
    \cup [fn : {"singleExecRetry"}, retryNum : 1..MaxRetry, safeMode : BOOLEAN]

\* the state after construction, for an input and a loopback setting
InitWith(inputs, configs, calls, maxFaults) ==
    /\ allDMLs \in inputs
    /\ \E c \in configs :
         /\ e \in [batchSize : 1..MaxBatchSize, workerCount : {c.e.workerCount}]
         /\ info = c.info
    /\ call \in calls
    /\ ctxDone = FALSE
    /\ pc = "idle"
    /\ attempt = 0
    /\ batchIdx = 0
    /\ phase = "none"
    /\ tasks = << >>
    /\ errg = Nil
    /\ lastErr = Nil
    /\ result = Running
    /\ runs = << >>
    /\ markTable = [id \in MarkRows |-> 1]
    /\ faults = maxFaults
    /\ barrier = [n |-> 0, ret |-> Nil, tasks |-> << >>, splits |-> << >>]
    /\ hist = [inFlight |-> FALSE, cancelAtt |-> 0, cancelBatch |-> 0,
               midFanout |-> FALSE, firstAfter |-> FALSE, retryAfter |-> FALSE]

\* an empty downstream, nothing redelivered, no schema drift under recovery,
\* no Txn at the filter, no syncer
NoSide ==
    /\ db = [k \in Keys |-> 0]
    /\ applied = [n |-> 0, init |-> db, once |-> db]
    /\ drift = [st |-> "none"]
    /\ filter = [st |-> "none"]
    /\ syncer = [st |-> "none"]

\* inputs up to MaxLen, loopback off
Init ==
    /\ InitWith(Inputs, {[e |-> [workerCount |-> 1], info |-> LoopbackOff]}, Calls, MaxFaults)
    /\ NoSide

\* inputs up to MaxLenLoopback, every loopback setting, the full retry budget
InitLoopback ==
    /\ InitWith(UNION { DMLsOfLen(n) : n \in 0..MaxLenLoopback }, LoopbackConfigs,
                { c \in Calls : c.retryNum = MaxRetry /\ (c.fn = "singleExecRetry" => c.safeMode) },
                MaxFaultsLoopback)
    /\ NoSide

\* ------------------------------------------------------------ retry driver
\* the batches of singleExecRetry
Batches == splitDMLs(allDMLs, e.batchSize)

\* util.RetryContext after fn returned err: nil ends the retry; an error on
\* the last attempt is returned; otherwise the driver sleeps the backoff.
\* After a successful batch singleExecRetry goes on to the next one.
FnReturn(err) ==
    /\ lastErr' = err
    /\ IF err = Nil
       THEN IF call.fn = "singleExecRetry" /\ batchIdx < Len(Batches)
            THEN /\ batchIdx' = batchIdx + 1
                 /\ attempt' = 1
                 /\ pc' = "attempt"
                 /\ result' = result
                 /\ hist' = [hist EXCEPT !.firstAfter = @ \/ ctxDone]
            ELSE /\ pc' = "done"
                 /\ result' = Nil
                 /\ UNCHANGED <<batchIdx, attempt, hist>>
       ELSE IF attempt >= call.retryNum
            THEN /\ pc' = "done"
                 /\ result' = err
                 /\ UNCHANGED <<batchIdx, attempt, hist>>
            ELSE /\ pc' = "sleep"
                 /\ UNCHANGED <<batchIdx, attempt, result, hist>>

\* execTableBatchRetry / singleExecRetry is called: the first attempt starts
\* (singleExecRetry with no batch returns nil at once)
Call ==
    /\ pc = "idle"
    /\ call.fn \in {"execTableBatchRetry", "singleExecRetry"}
    /\ IF call.fn = "singleExecRetry" /\ Len(Batches) = 0
       THEN /\ pc' = "done"
            /\ result' = Nil
            /\ UNCHANGED <<attempt, batchIdx, hist>>
       ELSE /\ pc' = "attempt"
            /\ attempt' = 1
            /\ batchIdx' = 1
            /\ result' = result
            /\ hist' = [hist EXCEPT !.firstAfter = @ \/ ctxDone]
    /\ UNCHANGED <<side, allDMLs, e, info, call, ctxDone, phase, tasks, errg, lastErr,
                   runs, db, markTable, faults, barrier>>

\* a context that is never cancelled handed to RetryContext instead
RetryCtxBackground == FALSE

\* the context the entry points hand to RetryContext is the caller's
RetryCtxDone == ctxDone

\* the backoff elapses with the context live: the next attempt starts
SleepDone ==
    /\ pc = "sleep"
    /\ ~RetryCtxDone
    /\ attempt' = attempt + 1
    /\ pc' = "attempt"
    /\ hist' = [hist EXCEPT !.retryAfter = @ \/ ctxDone]
    /\ UNCHANGED <<side, allDMLs, e, info, call, ctxDone, batchIdx, phase, tasks, errg,
                   lastErr, result, runs, db, markTable, faults, barrier>>

\* the context is cancelled during the backoff: its error is returned
SleepCancelled ==
    /\ pc = "sleep"
    /\ RetryCtxDone
    /\ pc' = "done"
    /\ result' = CtxErr
    /\ UNCHANGED <<side, allDMLs, e, info, call, ctxDone, attempt, batchIdx, phase, tasks,
                   errg, lastErr, runs, db, markTable, faults, barrier, hist>>

\* a fan-out with sub-batches in flight and sub-batches not yet started
MidFanout ==
    /\ pc = "wait"
    /\ phase # "single"
    /\ \E i \in 1..Len(tasks) : tasks[i].st \in {"begun", "execd"}
    /\ \E i \in 1..Len(tasks) : tasks[i].st = "pending"

\* the caller cancels the context
Cancel ==
    /\ ~ctxDone
    /\ pc \notin {"done", "panic"}
    /\ ctxDone' = TRUE
    /\ hist' = [hist EXCEPT !.inFlight = pc \in {"attempt", "split", "wait"},
                            !.cancelAtt = attempt, !.cancelBatch = batchIdx,
                            !.midFanout = MidFanout]
    /\ UNCHANGED <<side, allDMLs, e, info, call, pc, attempt, batchIdx, phase, tasks, errg,
                   lastErr, result, runs, db, markTable, faults, barrier>>

\* --------------------------------------------------------- execTableBatch
\* the unmerged input's DMLs of the phase's op type handed over instead
BucketUnmerged(types, ph) ==
    SelectSeq(allDMLs, LAMBDA d : d.Tp = (CASE ph = "del" -> DeleteDMLType
                                            [] ph = "ins" -> InsertDMLType
                                            [] OTHER -> UpdateDMLType))

\* the bucket execTableBatch hands to splitExecDML in a phase
Bucket(types, ph) ==
    CASE ph = "del" -> types[DeleteDMLType]
      [] ph = "ins" -> types[InsertDMLType]
      [] OTHER -> types[UpdateDMLType]

BucketFn(ph) == IF ph = "del" THEN "bulkDelete" ELSE "bulkReplace"

\* execTableBatch up to its first bucket: empty input returns nil, a merge
\* error is returned
execTableBatch ==
    /\ pc = "attempt"
    /\ call.fn = "execTableBatchRetry"
    /\ IF Len(allDMLs) = 0
       THEN FnReturn(Nil) /\ phase' = phase
       ELSE IF mergeByPrimaryKey(allDMLs).err # Nil
       THEN FnReturn(mergeByPrimaryKey(allDMLs).err) /\ phase' = phase
       ELSE /\ pc' = "split"
            /\ phase' = "del"
            /\ UNCHANGED <<attempt, batchIdx, lastErr, result, hist>>
    /\ UNCHANGED <<side, allDMLs, e, info, call, ctxDone, tasks, errg, runs, db, markTable,
                   faults, barrier>>

NewTask(fn, dmls) == [fn |-> fn, dmls |-> dmls, st |-> "pending", run |-> 0, err |-> Nil]

\* splitExecDML without the per-iteration copy of the loop variable: every
\* goroutine reads the variable after the loop and gets the last split
splitExecDMLSharedSplit ==
    /\ pc = "split"
    /\ LET splits == splitDMLs(Bucket(mergeByPrimaryKey(allDMLs).types, phase), e.batchSize)
       IN  tasks' = [i \in 1..Len(splits) |-> NewTask(BucketFn(phase), splits[Len(splits)])]
    /\ errg' = Nil
    /\ pc' = "wait"
    /\ UNCHANGED <<side, allDMLs, e, info, call, ctxDone, attempt, batchIdx, phase, lastErr,
                   result, runs, db, markTable, faults, barrier, hist>>

\* splitExecDML: a new errgroup, and one goroutine per split of the bucket
splitExecDML ==
    /\ pc = "split"
    /\ LET splits == splitDMLs(Bucket(mergeByPrimaryKey(allDMLs).types, phase), e.batchSize)
       IN  tasks' = [i \in 1..Len(splits) |-> NewTask(BucketFn(phase), splits[i])]
    /\ errg' = Nil
    /\ pc' = "wait"
    /\ UNCHANGED <<side, allDMLs, e, info, call, ctxDone, attempt, batchIdx, phase, lastErr,
                   result, runs, db, markTable, faults, barrier, hist>>

\* a goroutine that drops the error of exec and returns nil
TaskReturnDropErr(i, err) ==
    /\ tasks' = [tasks EXCEPT ![i].st = "done", ![i].err = Nil]
    /\ errg' = errg

\* what the goroutines of the errgroup leave behind when one returns err
TaskReturn(i, err) ==
    /\ tasks' = [tasks EXCEPT ![i].st = "done", ![i].err = err]
    /\ errg' = IF errg = Nil THEN err ELSE errg

\* a return as soon as one goroutine has returned
SomeReturned == Len(tasks) = 0 \/ \E i \in 1..Len(tasks) : tasks[i].st = "done"

\* errg.Wait() blocks until every goroutine of the group has returned
AllReturned == \A i \in 1..Len(tasks) : tasks[i].st = "done"

\* splitExecDML returning nil whatever the group's error
WaitNil == Nil

\* errg.Wait() returns the group's error
Wait == errg

\* execTableBatch going on to the next bucket after a bucket's error
AfterBucketIgnoreErr(err) ==
    IF phase = "upd"
    THEN FnReturn(err) /\ phase' = phase
    ELSE /\ pc' = "split"
         /\ phase' = IF phase = "del" THEN "ins" ELSE "upd"
         /\ UNCHANGED <<attempt, batchIdx, lastErr, result, hist>>

\* execTableBatch after a bucket's splitExecDML returned: an error is
\* returned, otherwise the next bucket, and nil after the last
AfterBucket(err) ==
    IF err # Nil
    THEN FnReturn(err) /\ phase' = phase
    ELSE IF phase = "upd"
    THEN FnReturn(Nil) /\ phase' = phase
    ELSE /\ pc' = "split"
         /\ phase' = IF phase = "del" THEN "ins" ELSE "upd"
         /\ UNCHANGED <<attempt, batchIdx, lastErr, result, hist>>

\* the barrier: splitExecDML returns when all its goroutines have
WaitReturn ==
    /\ pc = "wait"
    /\ phase \in {"del", "ins", "upd"}
    /\ AllReturned
    /\ barrier' = [n |-> barrier.n + 1, ret |-> Wait, tasks |-> tasks,
                   splits |-> splitDMLs(Bucket(mergeByPrimaryKey(allDMLs).types, phase),
                                        e.batchSize)]
    /\ AfterBucket(Wait)
    /\ UNCHANGED <<side, allDMLs, e, info, call, ctxDone, tasks, errg, runs, db, markTable,
                   faults>>

\* -------------------------------------------------------- singleExecRetry
\* an attempt of singleExecRetry's fn: singleExec on the current batch
singleExecStart ==
    /\ pc = "attempt"
    /\ call.fn = "singleExecRetry"
    /\ tasks' = << NewTask("singleExec", Batches[batchIdx]) >>
    /\ errg' = Nil
    /\ phase' = "single"
    /\ pc' = "wait"
    /\ UNCHANGED <<side, allDMLs, e, info, call, ctxDone, attempt, batchIdx, lastErr, result,
                   runs, db, markTable, faults, barrier, hist>>

\* singleExecRetry going on to the next batch whatever singleExec returned
singleExecReturnDropErr ==
    /\ pc = "wait"
    /\ phase = "single"
    /\ tasks[1].st = "done"
    /\ FnReturn(Nil)
    /\ UNCHANGED <<side, allDMLs, e, info, call, ctxDone, phase, tasks, errg, runs, db,
                   markTable, faults, barrier>>

\* singleExec returned: fn returns its error
singleExecReturn ==
    /\ pc = "wait"
    /\ phase = "single"
    /\ tasks[1].st = "done"
    /\ FnReturn(tasks[1].err)
    /\ UNCHANGED <<side, allDMLs, e, info, call, ctxDone, phase, tasks, errg, runs, db,
                   markTable, faults, barrier>>

\* ---------------------------------- bulkDelete / bulkReplace / singleExec
\* the record of an invocation. tx: begin returned a transaction handle;
\* st: the state of its sql transaction; marks: the mark rows updated in it;
\* calls: the hooks invoked; issued: the statements sent; stmts: those that
\* succeeded; visible: its changes were made visible downstream
NewRun(t, b, st, marks, calls, hookErr, ret) ==
    [fn |-> t.fn, batch |-> batchIdx, att |-> attempt, phase |-> phase, dmls |-> t.dmls,
     tx |-> b.tx, markFailed |-> b.markFailed, markId |-> b.id, Index |-> b.Index,
     st |-> st, marks |-> marks, calls |-> calls, hookErr |-> hookErr,
     issued |-> << >>, stmts |-> << >>, stmtOK |-> FALSE, ret |-> ret,
     visible |-> FALSE, ctxAtBegin |-> ctxDone]

\* a bulk operation that goes on to begin with an empty list
isEmptyNever(t) == FALSE

\* bulkDelete and bulkReplace return nil at once for an empty list
isEmpty(t) == t.fn # "singleExec" /\ Len(t.dmls) = 0

\* The first part of an invocation: the empty check of the bulk operations,
\* e.begin(), and the ExecutorExtend hook chain on the new transaction.
\* A hook's error is logged and the invocation goes on. Reading
\* e.info.SupportPlugin through a nil e.info panics.
TxBegin(i) ==
    /\ pc = "wait"
    /\ i \in 1..Len(tasks)
    /\ tasks[i].st = "pending"
    /\ LET t == tasks[i]
           r == Len(runs) + 1
       IN  IF isEmpty(t)
           THEN /\ TaskReturn(i, Nil)
                /\ UNCHANGED <<runs, info, faults, pc, result>>
           ELSE \E b \in begin(info.Index, faults, r) :
                  IF ~b.tx
                  THEN /\ runs' = Append(runs, NewRun(t, b, b.st, << >>, << >>, "", b.err))
                       /\ info' = [info EXCEPT !.Index = b.Index]
                       /\ faults' = b.faults
                       /\ TaskReturn(i, b.err)
                       /\ UNCHANGED <<pc, result>>
                  ELSE IF info.isNil
                  THEN /\ runs' = Append(runs, NewRun(t, b, b.st, << >>, << >>, "", Panic))
                       /\ tasks' = [tasks EXCEPT ![i].st = "panicked", ![i].run = r]
                       /\ faults' = b.faults
                       /\ pc' = "panic"
                       /\ result' = Panic
                       /\ UNCHANGED <<info, errg>>
                  ELSE \E h \in ExtendChain([st |-> b.st, marks |-> b.marks,
                                             Index |-> b.Index, faults |-> b.faults,
                                             calls |-> << >>, err |-> ""]) :
                         /\ runs' = Append(runs, NewRun(t, b, h.st, h.marks, h.calls,
                                                        h.err, Running))
                         /\ info' = [info EXCEPT !.Index = h.Index]
                         /\ faults' = h.faults
                         /\ tasks' = [tasks EXCEPT ![i].st = "begun", ![i].run = r]
                         /\ errg' = errg
                         /\ UNCHANGED <<pc, result>>
    /\ UNCHANGED <<side, allDMLs, e, call, ctxDone, attempt, batchIdx, phase, lastErr,
                   db, markTable, barrier, hist>>

\* The business statements of an invocation, each through autoRollbackExec:
\* the first error is returned.
TxExec(i) ==
    /\ pc = "wait"
    /\ i \in 1..Len(tasks)
    /\ tasks[i].st = "begun"
    /\ LET r == tasks[i].run
           run == runs[r]
       IN  \E x \in ExecQueries(Queries(run.fn, run.dmls, call.safeMode),
                                [st |-> run.st, issued |-> << >>, stmts |-> << >>,
                                 ok |-> TRUE, faults |-> faults]) :
             /\ faults' = x.faults
             /\ IF x.ok
                THEN /\ runs' = [runs EXCEPT ![r].st = x.st, ![r].issued = x.issued,
                                             ![r].stmts = x.stmts, ![r].stmtOK = TRUE]
                     /\ tasks' = [tasks EXCEPT ![i].st = "execd"]
                     /\ errg' = errg
                ELSE /\ runs' = [runs EXCEPT ![r].st = x.st, ![r].issued = x.issued,
                                             ![r].ret = Err("exec", r)]
                     /\ TaskReturn(i, Err("exec", r))
    /\ UNCHANGED <<side, allDMLs, e, info, call, ctxDone, pc, attempt, batchIdx, phase,
                   lastErr, result, db, markTable, barrier, hist>>

\* tx.commit() and the return of its error: a commit makes the transaction's
\* statements and mark updates visible downstream
TxCommit(i) ==
    /\ pc = "wait"
    /\ i \in 1..Len(tasks)
    /\ tasks[i].st = "execd"
    /\ LET r == tasks[i].run
           run == runs[r]
       IN  \E c \in commit(run.st, faults) :
             /\ faults' = c.faults
             /\ IF c.ok
                THEN /\ runs' = [runs EXCEPT ![r].st = c.st, ![r].ret = Nil,
                                             ![r].visible = TRUE]
                     /\ db' = ApplyAll(db, run.stmts)
                     /\ markTable' = ApplyMarks(markTable, run.marks)
                     /\ TaskReturn(i, Nil)
                ELSE /\ runs' = [runs EXCEPT ![r].st = c.st, ![r].ret = Err("commit", r)]
                     /\ TaskReturn(i, Err("commit", r))
                     /\ UNCHANGED <<db, markTable>>
    /\ UNCHANGED <<side, allDMLs, e, info, call, ctxDone, pc, attempt, batchIdx, phase,
                   lastErr, result, barrier, hist>>

Next ==
    \/ Call
    \/ Cancel
    \/ SleepDone
    \/ SleepCancelled
    \/ execTableBatch
    \/ splitExecDML
    \/ WaitReturn
    \/ singleExecStart
    \/ singleExecReturn
    \/ \E i \in 1..(MaxLen) : TxBegin(i)
    \/ \E i \in 1..(MaxLen) : TxExec(i)
    \/ \E i \in 1..(MaxLen) : TxCommit(i)

Spec == Init /\ [][Next]_vars

SpecLoopback == InitLoopback /\ [][Next]_vars

\* inputs up to MaxLenLoopback on an executor with info set, loopback off, and
\* on one on which setSyncInfo was never called
InitNoInfo ==
    /\ InitWith(UNION { DMLsOfLen(n) : n \in 0..MaxLenLoopback },
                {[e |-> [workerCount |-> 1], info |-> inf] : inf \in {LoopbackOff, NilSyncInfo}},
                Calls, MaxFaultsLoopback)
    /\ NoSide

SpecNoInfo == InitNoInfo /\ [][Next]_vars

\* ------------------------------------------------------------ redelivery
\* the value of a row that is downstream before the input is applied
OldVal == MaxLen + 1

\* a statement on the downstream's rows: an INSERT of a key that is there
\* fails with a duplicate entry
ExecStmt(rows, s) ==
    [ok |-> ~(s.op = "INSERT" /\ rows[s.key] # 0), rows |-> ApplyStmt(rows, s)]

\* the statements of a transaction in turn, up to the first that fails
RECURSIVE ExecStmts(_, _)
ExecStmts(rows, stmts) ==
    IF Len(stmts) = 0 THEN [ok |-> TRUE, rows |-> rows]
    ELSE LET x == ExecStmt(rows, Head(stmts))
         IN  IF x.ok THEN ExecStmts(x.rows, Tail(stmts)) ELSE [ok |-> FALSE, rows |-> rows]

RECURSIVE Flatten(_)
Flatten(qs) == IF Len(qs) = 0 THEN << >> ELSE Head(qs) \o Flatten(Tail(qs))

\* singleExec(dmls, safeMode) on a downstream that fails nothing but a
\* duplicate entry: the rows after its commit, or the rows as they were
\* after the rollback of a failed statement
singleExec(rows, dmls, safeMode) ==
    LET x == ExecStmts(rows, Flatten(singleExecQueries(dmls, safeMode)))
    IN  IF x.ok THEN x ELSE [ok |-> FALSE, rows |-> rows]

\* singleExecRetry on that downstream: batch by batch, returning at the
\* first batch that fails (a retry fails the same way)
RECURSIVE singleExecRetry(_, _, _)
singleExecRetry(rows, batches, safeMode) ==
    IF Len(batches) = 0 THEN rows
    ELSE LET x == singleExec(rows, Head(batches), safeMode)
         IN  IF x.ok THEN singleExecRetry(x.rows, Tail(batches), safeMode) ELSE rows

\* the input is delivered, once more, to singleExecRetry
Replay ==
    /\ applied.n < MaxApply
    /\ db' = singleExecRetry(db, Batches, call.safeMode)
    /\ applied' = [n |-> applied.n + 1, init |-> applied.init,
                   once |-> IF applied.n = 0 THEN db' ELSE applied.once]
    /\ UNCHANGED <<drift, filter, syncer, allDMLs, e, info, call, ctxDone, pc, attempt, batchIdx,
                   phase, tasks, errg, lastErr, result, runs, markTable, faults, barrier,
                   hist>>

\* every input in safe mode on every downstream of old and absent rows
InitReplay ==
    /\ InitWith(Inputs, {[e |-> [workerCount |-> 1], info |-> LoopbackOff]},
                { c \in Calls : c.fn = "singleExecRetry" /\ c.safeMode /\ c.retryNum = 1 }, 0)
    /\ db \in [Keys -> {0, OldVal}]
    /\ applied = [n |-> 0, init |-> db, once |-> db]
    /\ drift = [st |-> "none"]
    /\ filter = [st |-> "none"]
    /\ syncer = [st |-> "none"]

NextReplay == Replay

SpecReplay == InitReplay /\ [][NextReplay]_vars

\* -------------------------------------------------- schema-drift recovery
\* the column names of a table, cached or refreshed
Cols == {"a", "b", "c"}
ColumnLists == (SUBSET Cols) \ {{}}

\* removeOrphanCols(info, dml): the values of columns info has not are dropped
removeOrphanCols(columns, values) == values \cap columns

\* singleExecRetry's fn after singleExec failed with "column not exists" and
\* refreshTableInfo returned the table's columns: the DML's values are
\* pruned when the length of the column list changed, and info is rebound
refreshTableInfoOK ==
    /\ drift.st = "failed"
    /\ drift' = [st |-> "recovered",
                 columns |-> drift.fresh,
                 Values |-> IF Cardinality(drift.columns) # Cardinality(drift.fresh)
                            THEN removeOrphanCols(drift.fresh, drift.Values)
                            ELSE drift.Values,
                 fresh |-> drift.fresh]
    /\ UNCHANGED <<applied, filter, syncer, allDMLs, e, info, call, ctxDone, pc, attempt,
                   batchIdx,
                   phase, tasks, errg, lastErr, result, runs, db, markTable, faults,
                   barrier, hist>>

\* refreshTableInfo returned an error: logged, the DML keeps its stale info
refreshTableInfoErr ==
    /\ drift.st = "failed"
    /\ drift' = [drift EXCEPT !.st = "stale"]
    /\ UNCHANGED <<applied, filter, syncer, allDMLs, e, info, call, ctxDone, pc, attempt,
                   batchIdx,
                   phase, tasks, errg, lastErr, result, runs, db, markTable, faults,
                   barrier, hist>>

\* a DML whose values are keyed by columns of its cached info, after an
\* attempt that failed with the drift error, and what the table has now
InitDrift ==
    /\ InitWith({<< >>}, {[e |-> [workerCount |-> 1], info |-> LoopbackOff]},
                { c \in Calls : c.fn = "singleExecRetry" /\ c.retryNum = MaxRetry }, 0)
    /\ db = [k \in Keys |-> 0]
    /\ applied = [n |-> 0, init |-> db, once |-> db]
    /\ filter = [st |-> "none"]
    /\ syncer = [st |-> "none"]
    /\ \E columns \in ColumnLists, fresh \in ColumnLists :
          \E values \in (SUBSET columns) \ {{}} :
             drift = [st |-> "failed", columns |-> columns, Values |-> values,
                      fresh |-> fresh]

NextDrift == refreshTableInfoOK \/ refreshTableInfoErr

SpecDrift == InitDrift /\ [][NextDrift]_vars

\* ------------------------------------------- bulk operations called directly
\* bulkDelete(deletes) / bulkReplace(inserts) is called with the list
bulkStart ==
    /\ pc = "idle"
    /\ call.fn \in {"bulkDelete", "bulkReplace"}
    /\ tasks' = << NewTask(call.fn, allDMLs) >>
    /\ errg' = Nil
    /\ phase' = "direct"
    /\ pc' = "wait"
    /\ UNCHANGED <<side, allDMLs, e, info, call, ctxDone, attempt, batchIdx, lastErr, result,
                   runs, db, markTable, faults, barrier, hist>>

\* the bulk operation returns to its caller
bulkReturn ==
    /\ pc = "wait"
    /\ phase = "direct"
    /\ tasks[1].st = "done"
    /\ pc' = "done"
    /\ result' = tasks[1].err
    /\ lastErr' = tasks[1].err
    /\ UNCHANGED <<side, allDMLs, e, info, call, ctxDone, attempt, batchIdx, phase, tasks,
                   errg, runs, db, markTable, faults, barrier, hist>>

\* the calls of the table-batched path and of its two bulk operations
BulkCalls ==
    [fn : {"execTableBatchRetry", "bulkDelete", "bulkReplace"}, retryNum : {MaxRetry},
     safeMode : {FALSE}]

\* inputs up to MaxLenLoopback, every loopback setting; bulkDelete is handed
\* deletes and bulkReplace inserts and updates
InitBulk ==
    /\ InitWith(UNION { DMLsOfLen(n) : n \in 0..MaxLenLoopback }, LoopbackConfigs,
                BulkCalls, MaxFaultsLoopback)
    /\ call.fn = "bulkDelete" => \A i \in 1..Len(allDMLs) : allDMLs[i].Tp = DeleteDMLType
    /\ call.fn = "bulkReplace" => \A i \in 1..Len(allDMLs) : allDMLs[i].Tp # DeleteDMLType
    /\ NoSide

NextBulk ==
    \/ Call
    \/ Cancel
    \/ SleepDone
    \/ SleepCancelled
    \/ execTableBatch
    \/ splitExecDML
    \/ WaitReturn
    \/ bulkStart
    \/ bulkReturn
    \/ \E i \in 1..(MaxLen) : TxBegin(i)
    \/ \E i \in 1..(MaxLen) : TxExec(i)
    \/ \E i \in 1..(MaxLen) : TxCommit(i)

SpecBulk == InitBulk /\ [][NextBulk]_vars

\* ------------------------------------------------- the loader's filter hook
\* table names and origin addresses as the upstream may spell them
TableNames == {"mark", "MARK", "t1"}
MarkTableNames == {"mark", "Mark"}
IPs == {"ip1", "IP1", "ip2"}

\* the case folding of strings.EqualFold on these names
Lower(str) ==
    CASE str \in {"mark", "MARK", "Mark"} -> "mark"
      [] str \in {"ip1", "IP1"} -> "ip1"
      [] OTHER -> str
EqualFold(a, b) == Lower(a) = Lower(b)

\* a nil *loader.Txn and a nil *loopbacksync.LoopBackSync
NilTxn == [isNil |-> TRUE, DDL |-> FALSE, DMLs |-> << >>, Ip |-> "", Metadata |-> ""]
NilInfo == [isNil |-> TRUE, MarkTableName |-> "", MigrationIPs |-> << >>]

\* the transactions the loader may receive: with a DDL or not, up to
\* MaxTxnDMLs DMLs, an origin address, and its metadata
Txns ==
    {NilTxn} \cup
    [isNil : {FALSE}, DDL : BOOLEAN,
     DMLs : UNION { [1..n -> [Database : {"d1"}, Table : TableNames, Values : {1, 2}]]
                    : n \in 0..MaxTxnDMLs },
     Ip : IPs, Metadata : {"Item", "other"}]

\* the loopback settings FilterTxn reads
FilterInfos ==
    {NilInfo} \cup
    [isNil : {FALSE}, MarkTableName : MarkTableNames,
     MigrationIPs : {<< >>, <<"ip1">>, <<"ip2", "ip1">>}]

\* a findLoopBackMark that returns true at the first DML, whatever its table
findLoopBackMarkAny(dmls, inf) == [find |-> Len(dmls) > 0, err |-> Nil]

\* a comparison of the table name with MarkTableName byte by byte
findLoopBackMarkExact(dmls, inf) ==
    [find |-> \E i \in 1..Len(dmls) : dmls[i].Table = inf.MarkTableName, err |-> Nil]

\* findLoopBackMark: a DML whose table is MarkTableName, whatever the case
findLoopBackMark(dmls, inf) ==
    [find |-> \E i \in 1..Len(dmls) : EqualFold(dmls[i].Table, inf.MarkTableName),
     err |-> Nil]

\* a FilterTxn that compares the origin address with the first migration
\* address only
FilterTxnFirstIP(txn, inf) ==
    IF txn.isNil \/ inf.isNil \/ txn.DDL \/ findLoopBackMark(txn.DMLs, inf).find
    THEN [end |-> "return", txn |-> NilTxn, err |-> Nil]
    ELSE IF Len(inf.MigrationIPs) > 0 /\ EqualFold(txn.Ip, inf.MigrationIPs[1])
    THEN [end |-> IF txn.Metadata = "Item" THEN "fatal" ELSE "panic",
          txn |-> NilTxn, err |-> Nil]
    ELSE [end |-> "return",
          txn |-> [txn EXCEPT !.DMLs = [i \in 1..Len(txn.DMLs) |->
                                          [txn.DMLs[i] EXCEPT !.Database = ""]]],
          err |-> Nil]

\* Plugin.FilterTxn: what it returns, or how it ends the process
FilterTxn(txn, inf) ==
    IF txn.isNil \/ inf.isNil
    THEN [end |-> "return", txn |-> NilTxn, err |-> Nil]
    ELSE IF txn.DDL
    THEN [end |-> "return", txn |-> NilTxn, err |-> Nil]
    ELSE LET f == findLoopBackMark(txn.DMLs, inf)
         IN  IF f.err # Nil
             THEN [end |-> "return", txn |-> txn, err |-> f.err]
             ELSE IF f.find
             THEN [end |-> "return", txn |-> NilTxn, err |-> Nil]
             ELSE IF \E i \in 1..Len(inf.MigrationIPs) : EqualFold(txn.Ip, inf.MigrationIPs[i])
             THEN [end |-> IF txn.Metadata = "Item" THEN "fatal" ELSE "panic",
                   txn |-> NilTxn, err |-> Nil]
             ELSE [end |-> "return",
                   txn |-> [txn EXCEPT !.DMLs = [i \in 1..Len(txn.DMLs) |->
                                                   [txn.DMLs[i] EXCEPT !.Database = ""]]],
                   err |-> Nil]

\* the loader hands a received transaction to the filter hook
LoaderFilter ==
    /\ filter.st = "received"
    /\ LET out == FilterTxn(filter.txn, filter.info)
       IN  filter' = [filter EXCEPT !.st = IF out.end = "return" THEN "filtered" ELSE out.end,
                                    !.out = [txn |-> out.txn, err |-> out.err]]
    /\ UNCHANGED <<applied, drift, syncer, allDMLs, e, info, call, ctxDone, pc, attempt,
                   batchIdx,
                   phase, tasks, errg, lastErr, result, runs, db, markTable, faults,
                   barrier, hist>>

\* the loader drops a transaction the hook returned nil for
LoaderDrop ==
    /\ filter.st = "filtered"
    /\ filter.out.txn.isNil
    /\ filter.out.err = Nil
    /\ filter' = [filter EXCEPT !.st = "dropped"]
    /\ UNCHANGED <<applied, drift, syncer, allDMLs, e, info, call, ctxDone, pc, attempt,
                   batchIdx,
                   phase, tasks, errg, lastErr, result, runs, db, markTable, faults,
                   barrier, hist>>

\* the loader hands the DMLs of the transaction the hook returned to the executor
LoaderApply ==
    /\ filter.st = "filtered"
    /\ ~filter.out.txn.isNil
    /\ filter.out.err = Nil
    /\ filter' = [filter EXCEPT !.st = "applied", !.toExecutor = filter.out.txn.DMLs]
    /\ UNCHANGED <<applied, drift, syncer, allDMLs, e, info, call, ctxDone, pc, attempt,
                   batchIdx,
                   phase, tasks, errg, lastErr, result, runs, db, markTable, faults,
                   barrier, hist>>

\* a transaction received from upstream, before the filter hook
InitFilter ==
    /\ InitWith({<< >>}, {[e |-> [workerCount |-> 1], info |-> LoopbackOff]},
                { c \in Calls : c.fn = "execTableBatchRetry" /\ c.retryNum = MaxRetry }, 0)
    /\ db = [k \in Keys |-> 0]
    /\ applied = [n |-> 0, init |-> db, once |-> db]
    /\ drift = [st |-> "none"]
    /\ syncer = [st |-> "none"]
    /\ \E txn \in Txns, inf \in FilterInfos :
          filter = [st |-> "received", txn |-> txn, info |-> inf,
                    out |-> [txn |-> NilTxn, err |-> Nil], toExecutor |-> << >>]

NextFilter == LoaderFilter \/ LoaderDrop \/ LoaderApply

SpecFilter == InitFilter /\ [][NextFilter]_vars

\* ------------------------------------------------------------- MysqlSyncer
\* the executor's and the loopback plugin's state, which the syncer leaves alone
executorVars == <<allDMLs, e, info, call, ctxDone, pc, attempt, batchIdx, phase, tasks,
                  errg, lastErr, result, runs, db, markTable, faults, barrier, hist>>

RunErr == Err("loader", 0)
RelayErr == Err("relayer", 0)

\* the transactions the loader applies are numbered in the order applied
SyncTxns == 1..MaxSyncTxns

\* the loader applied a transaction and sends it on its Successes channel
LoaderSuccess ==
    /\ syncer.st = "run"
    /\ syncer.Run = Running
    /\ ~syncer.successesClosed
    /\ Len(syncer.emitted) < MaxSyncTxns
    /\ LET txn == Len(syncer.emitted) + 1
       IN  syncer' = [syncer EXCEPT !.Successes = Append(@, txn), !.emitted = Append(@, txn)]
    /\ UNCHANGED <<applied, drift, filter, executorVars>>

\* the loader's Run ends: it closes its Successes channel; it ends with an
\* error of its own, or with nil once Close was called
LoaderCloseSuccesses ==
    /\ syncer.st = "run"
    /\ syncer.Run = Running
    /\ ~syncer.successesClosed
    /\ \E err \in {RunErr} \cup (IF syncer.loaderClosed THEN {Nil} ELSE {}) :
          syncer' = [syncer EXCEPT !.successesClosed = TRUE, !.runErr = err]
    /\ UNCHANGED <<applied, drift, filter, executorVars>>

\* m.loader.Run() returns to run with its error
LoaderRunReturn ==
    /\ syncer.st = "run"
    /\ syncer.rpc = "Run"
    /\ syncer.successesClosed
    /\ syncer' = [syncer EXCEPT !.Run = syncer.runErr, !.rpc = "Wait"]
    /\ UNCHANGED <<applied, drift, filter, executorVars>>

\* the success goroutine of run receives the next transaction of Successes
SuccessRecv ==
    /\ syncer.st = "run"
    /\ syncer.gpc = "recv"
    /\ Len(syncer.Successes) > 0
    /\ syncer' = [syncer EXCEPT !.Successes = Tail(@), !.item = Head(syncer.Successes),
                                !.gpc = "send"]
    /\ UNCHANGED <<applied, drift, filter, executorVars>>

\* m.success <- item, when the channel has room
SuccessSend ==
    /\ syncer.st = "run"
    /\ syncer.gpc = "send"
    /\ Len(syncer.success) < SuccessCap
    /\ syncer' = [syncer EXCEPT !.success = Append(@, syncer.item),
                                !.sent = Append(@, syncer.item),
                                !.item = 0, !.gpc = "recv",
                                !.sentAfterErr = @ \/ syncer.errCh]
    /\ UNCHANGED <<applied, drift, filter, executorVars>>

\* the range over Successes ends when the channel is closed and drained:
\* close(m.success), and the goroutine is done
SuccessQuit ==
    /\ syncer.st = "run"
    /\ syncer.gpc = "recv"
    /\ Len(syncer.Successes) = 0
    /\ syncer.successesClosed
    /\ syncer' = [syncer EXCEPT !.successClosed = TRUE, !.gpc = "done"]
    /\ UNCHANGED <<applied, drift, filter, executorVars>>

\* the syncer's owner receives an item from m.success
SuccessConsume ==
    /\ syncer.st = "run"
    /\ Len(syncer.success) > 0
    /\ syncer' = [syncer EXCEPT !.success = Tail(@)]
    /\ UNCHANGED <<applied, drift, filter, executorVars>>

\* a run that goes on without waiting for the success goroutine
wgWaitSkipped == TRUE

\* wg.Wait(): the success goroutine has called wg.Done()
wgWait == syncer.gpc = "done"

\* run after Run returned: wg.Wait(), m.db.Close(), m.setErr(err), which
\* stores the error and closes errCh
setErr ==
    /\ syncer.st = "run"
    /\ syncer.rpc = "Wait"
    /\ wgWait
    /\ syncer' = [syncer EXCEPT !.rpc = "end", !.err = syncer.Run, !.errCh = TRUE]
    /\ UNCHANGED <<applied, drift, filter, executorVars>>

\* what Close returns: err is the error read from m.Error(); with a relayer
\* it is replaced by the relayer's close error when err is not nil
CloseReturn(err, relayer, closeRelayerErr) ==
    IF relayer /\ err # Nil THEN closeRelayerErr ELSE err

\* Close is called: m.loader.Close(), then it waits on m.Error()
CloseStart ==
    /\ syncer.st = "run"
    /\ syncer.cpc = "idle"
    /\ syncer' = [syncer EXCEPT !.cpc = "Error", !.loaderClosed = TRUE]
    /\ UNCHANGED <<applied, drift, filter, executorVars>>

\* Close receives the published error, closes the relayer if there is one,
\* and returns
CloseFinish ==
    /\ syncer.st = "run"
    /\ syncer.cpc = "Error"
    /\ syncer.errCh
    /\ \E closeRelayerErr \in {Nil, RelayErr} :
          syncer' = [syncer EXCEPT !.cpc = "returned",
                                   !.closeRelayerErr = closeRelayerErr,
                                   !.ret = CloseReturn(syncer.err, syncer.relayer,
                                                       closeRelayerErr)]
    /\ UNCHANGED <<applied, drift, filter, executorVars>>

\* NewMysqlSyncer returned: run is started, with the relay log on or off
InitSyncer ==
    /\ InitWith({<< >>}, {[e |-> [workerCount |-> 1], info |-> LoopbackOff]},
                { c \in Calls : c.fn = "execTableBatchRetry" /\ c.retryNum = MaxRetry }, 0)
    /\ db = [k \in Keys |-> 0]
    /\ applied = [n |-> 0, init |-> db, once |-> db]
    /\ drift = [st |-> "none"]
    /\ filter = [st |-> "none"]
    /\ \E relayer \in BOOLEAN :
          syncer = [st |-> "run", relayer |-> relayer,
                    Run |-> Running, runErr |-> Nil, loaderClosed |-> FALSE,
                    Successes |-> << >>, successesClosed |-> FALSE, emitted |-> << >>,
                    gpc |-> "recv", item |-> 0,
                    success |-> << >>, successClosed |-> FALSE, sent |-> << >>,
                    rpc |-> "Run", err |-> Nil, errCh |-> FALSE, sentAfterErr |-> FALSE,
                    cpc |-> "idle", closeRelayerErr |-> Nil, ret |-> Running]

NextSyncer ==
    \/ LoaderSuccess
    \/ LoaderCloseSuccesses
    \/ LoaderRunReturn
    \/ SuccessRecv
    \/ SuccessSend
    \/ SuccessQuit
    \/ SuccessConsume
    \/ setErr
    \/ CloseStart
    \/ CloseFinish

SpecSyncer == InitSyncer /\ [][NextSyncer]_vars

\* ------------------------------------------------------------------ claims
RunIds == 1..Len(runs)
BulkFns == {"bulkDelete", "bulkReplace"}
Range(q) == { q[i] : i \in 1..Len(q) }
Failed(r) == runs[r].ret # Nil /\ runs[r].ret # Running
TableCall == call.fn = "execTableBatchRetry"
Merged == mergeByPrimaryKey(allDMLs)

\* the invocations of attempt a of batch b
AttemptRuns(b, a) == { r \in RunIds : runs[r].batch = b /\ runs[r].att = a }

\* the sub-batches one execTableBatch call has to apply
TotalSplits ==
    Len(splitDMLs(Merged.types[DeleteDMLType], e.batchSize))
    + Len(splitDMLs(Merged.types[InsertDMLType], e.batchSize))
    + Len(splitDMLs(Merged.types[UpdateDMLType], e.batchSize))

\* an attempt of execTableBatch in which every sub-batch committed
AttemptOK(a) ==
    /\ Merged.err = Nil
    /\ \A r \in AttemptRuns(1, a) : runs[r].st = "committed"
    /\ Cardinality(AttemptRuns(1, a)) = TotalSplits

\* the errors of an attempt of execTableBatch
AttemptErrs(a) ==
    { runs[r].ret : r \in { x \in AttemptRuns(1, a) : Failed(x) } }
    \cup (IF Merged.err # Nil THEN {Merged.err} ELSE {})

\* C1: within one execTableBatch call a replace transaction is begun only
\* when every delete sub-batch of the call has been run and its transaction
\* has ended, and none of them failed
C1_DeletesBeforeReplaces ==
    (\E r \in RunIds : runs[r].fn = "bulkReplace") =>
        LET n == Len(splitDMLs(Merged.types[DeleteDMLType], e.batchSize))
        IN  \A r \in RunIds : runs[r].fn = "bulkReplace" =>
                LET dels == { d \in RunIds : runs[d].fn = "bulkDelete" /\ runs[d].att = runs[r].att }
                IN  /\ \A d \in dels : runs[d].st = "committed" /\ runs[d].ret = Nil
                    /\ Cardinality(dels) = n

\* two delete sub-batches and a replace sub-batch ran in one call
C1_Witness ==
    \E r \in RunIds, d1 \in RunIds, d2 \in RunIds :
        /\ d1 # d2
        /\ runs[r].fn = "bulkReplace" /\ runs[d1].fn = "bulkDelete" /\ runs[d2].fn = "bulkDelete"
        /\ runs[d1].att = runs[r].att /\ runs[d2].att = runs[r].att

\* the DMLs a nil return stands for: the survivors of the merge, or for
\* singleExecRetry every input DML
Delivered ==
    IF TableCall
    THEN UNION { Range(Merged.types[tp]) : tp \in DMLTypes }
    ELSE Range(allDMLs)

\* C2: when execTableBatchRetry or singleExecRetry has returned nil, every
\* delivered DML is in a transaction that executed its statements and
\* committed, and the last attempt left no sub-batch failed
C2_AtLeastOnce ==
    (pc = "done" /\ result = Nil) =>
        /\ TableCall => Merged.err = Nil
        /\ \A d \in Delivered : \E r \in RunIds :
              /\ runs[r].st = "committed"
              /\ runs[r].stmtOK
              /\ d \in Range(runs[r].dmls)
              /\ \E j \in 1..Len(runs[r].stmts) : runs[r].stmts[j].key = d.key
        /\ \A r \in AttemptRuns(batchIdx, attempt) : runs[r].st = "committed"

\* a nil return after an attempt that failed
C2_Witness ==
    /\ pc = "done" /\ result = Nil
    /\ Delivered # {}
    /\ \E r \in RunIds : Failed(r)

\* a bulk invocation that got its transaction from begin and has returned
BulkReturned(r) == runs[r].fn \in BulkFns /\ runs[r].tx /\ runs[r].ret # Running

\* the mark updates of committed transactions on mark row id
MarkCount(id) ==
    Cardinality(UNION { { <<r, j>> : j \in { x \in 1..Len(runs[r].marks) : runs[r].marks[x] = id } }
                        : r \in { x \in RunIds : runs[x].st = "committed" } })

\* C3 as stated: a bulk transaction either executes and is committed, or its
\* statement fails, it is rolled back, an error is returned and nothing of it
\* is visible
C3_Original ==
    \A r \in RunIds : BulkReturned(r) =>
        \/ runs[r].stmtOK /\ runs[r].st = "committed" /\ runs[r].ret = Nil /\ runs[r].visible
        \/ ~runs[r].stmtOK /\ runs[r].st = "rolledback" /\ Failed(r) /\ ~runs[r].visible

\* C3: a bulk transaction ends in one of three ways: statement and commit
\* succeed and its changes are visible; the statement fails, it is rolled
\* back and an error returned; or the commit fails and an error is returned.
\* In the last two nothing of it is visible, and the mark table holds the
\* increments of the committed transactions only.
C3_SubBatchAtomic ==
    /\ \A r \in RunIds : BulkReturned(r) =>
          \/ runs[r].stmtOK /\ runs[r].st = "committed" /\ runs[r].ret = Nil /\ runs[r].visible
          \/ ~runs[r].stmtOK /\ runs[r].st = "rolledback" /\ Failed(r) /\ ~runs[r].visible
          \/ runs[r].stmtOK /\ runs[r].st = "commitfailed" /\ Failed(r) /\ ~runs[r].visible
    /\ \A id \in MarkRows : markTable[id] = 1 + MarkCount(id)
    /\ \A k \in Keys : db[k] # 0 =>
          \E r \in RunIds : /\ runs[r].st = "committed"
                            /\ \E j \in 1..Len(runs[r].stmts) :
                                  /\ runs[r].stmts[j].key = k
                                  /\ runs[r].stmts[j].val = db[k]
                                  /\ runs[r].stmts[j].op # "DELETE"

\* a bulk transaction with a mark update whose statement succeeded and whose
\* commit failed, next to one that committed
C3_Witness ==
    \E r \in RunIds, c \in RunIds :
        /\ BulkReturned(r) /\ runs[r].stmtOK /\ runs[r].st = "commitfailed"
        /\ Len(runs[r].marks) > 0 /\ Len(runs[r].issued) > 0
        /\ BulkReturned(c) /\ runs[c].st = "committed" /\ Len(runs[c].marks) > 0

\* the keys an invocation touches
RunKeys(r) == { runs[r].dmls[i].key : i \in 1..Len(runs[r].dmls) }

\* C4: no bucket of the merge holds a key twice (the merge depends on the
\* input only, so it is looked at before the call starts); the sub-batches
\* fanned out together touch disjoint keys, and so do the transactions of one
\* call that are open together; and one call issues at most one statement
\* per key
C4_DisjointKeys ==
    TableCall =>
        /\ pc = "idle" =>
              LET m == Merged.types
              IN  \A tp \in DMLTypes : \A i, j \in 1..Len(m[tp]) :
                      i # j => m[tp][i].key # m[tp][j].key
        /\ \A t1, t2 \in 1..Len(tasks) :
              \A j1 \in 1..Len(tasks[t1].dmls), j2 \in 1..Len(tasks[t2].dmls) :
                  (t1 # t2 \/ j1 # j2) => tasks[t1].dmls[j1].key # tasks[t2].dmls[j2].key
        /\ \A r1, r2 \in RunIds :
              (r1 # r2 /\ runs[r1].att = runs[r2].att
                 /\ runs[r1].st = "open" /\ runs[r2].st = "open")
              => RunKeys(r1) \cap RunKeys(r2) = {}
        /\ \A r1, r2 \in RunIds : (r1 <= r2 /\ runs[r1].att = runs[r2].att) =>
              \A j1 \in 1..Len(runs[r1].issued), j2 \in 1..Len(runs[r2].issued) :
                  (r1 # r2 \/ j1 < j2) => runs[r1].issued[j1].key # runs[r2].issued[j2].key

\* two transactions of one bucket open together, each with statements issued
C4_Witness ==
    /\ TableCall
    /\ \E r1, r2 \in RunIds :
          /\ r1 # r2 /\ runs[r1].att = runs[r2].att /\ runs[r1].phase = runs[r2].phase
          /\ runs[r1].st = "open" /\ runs[r2].st = "open"
          /\ Len(runs[r1].issued) > 0 /\ Len(runs[r2].issued) > 0

\* C5: when splitExecDML returned there was one task per sub-batch, every
\* task had returned with its transaction ended, and the error returned is
\* nil exactly when no task failed and otherwise the error of one of them
C5_FanOutBarrier ==
    barrier.n > 0 =>
        /\ Len(barrier.tasks) = Len(barrier.splits)
        /\ \A i \in 1..Len(barrier.tasks) :
              /\ barrier.tasks[i].dmls = barrier.splits[i]
              /\ barrier.tasks[i].st = "done"
              /\ barrier.tasks[i].run # 0 => runs[barrier.tasks[i].run].st # "open"
        /\ (barrier.ret # Nil) <=> (\E i \in 1..Len(barrier.tasks) : barrier.tasks[i].err # Nil)
        /\ barrier.ret # Nil => \E i \in 1..Len(barrier.tasks) : barrier.tasks[i].err = barrier.ret

\* a fan-out of three tasks returned, two of them with different errors
C5_Witness ==
    /\ barrier.n > 0
    /\ Len(barrier.tasks) = 3
    /\ \E i, j \in 1..Len(barrier.tasks) :
          /\ barrier.tasks[i].err # Nil /\ barrier.tasks[j].err # Nil
          /\ barrier.tasks[i].err # barrier.tasks[j].err
          /\ barrier.ret = barrier.tasks[j].err /\ i < j

\* C6 as stated: the pipeline runs at most N times, nil is returned at the
\* first attempt that succeeds, and an error is returned only after the N-th
\* failed attempt, and is that attempt's error
C6_Original ==
    (TableCall /\ pc = "done") =>
        /\ attempt <= call.retryNum
        /\ \A a \in 1..(attempt - 1) : AttemptErrs(a) # {}
        /\ result = Nil => (Len(allDMLs) = 0 \/ AttemptOK(attempt))
        /\ result # Nil => /\ attempt = call.retryNum
                           /\ result = lastErr
                           /\ result \in AttemptErrs(attempt)

\* C6: the pipeline runs at most N times, every attempt before the last one
\* failed, nil is returned at the first attempt that succeeds, and an error
\* is either the N-th attempt's error or, with attempts left, the error of
\* the context cancelled during the backoff after a failed attempt
C6_RetryBudget ==
    /\ TableCall => attempt <= call.retryNum
    /\ (TableCall /\ pc = "done") =>
          /\ \A a \in 1..(attempt - 1) : AttemptErrs(a) # {}
          /\ result = Nil => (Len(allDMLs) = 0 \/ AttemptOK(attempt))
          /\ result # Nil =>
                /\ AttemptErrs(attempt) # {}
                /\ lastErr \in AttemptErrs(attempt)
                /\ \/ attempt = call.retryNum /\ result = lastErr
                   \/ attempt < call.retryNum /\ ctxDone /\ result = CtxErr
    /\ (TableCall /\ pc = "sleep") => (attempt < call.retryNum /\ lastErr \in AttemptErrs(attempt))

\* the N-th attempt failed after N - 1 failed attempts, with N > 1
C6_Witness ==
    /\ TableCall /\ pc = "done"
    /\ call.retryNum > 1 /\ attempt = call.retryNum
    /\ result # Nil /\ result # CtxErr
    /\ AttemptRuns(1, 1) # {} /\ AttemptRuns(1, attempt) # {}

C8_Claim ==
    hist.midFanout =>
        /\ \A r \in RunIds : ~runs[r].ctxAtBegin
        /\ pc = "done" =>
              /\ \A r \in RunIds : runs[r].st # "open"
              /\ result = CtxErr
              /\ attempt = hist.cancelAtt

\* a transaction under loopback control: begin or the plugin marked it
LoopbackEnabled(r) ==
    info.LoopbackControl \/ \E j \in 1..Len(runs[r].calls) : runs[r].calls[j] = "loopback"

\* C9 as stated: every committed loopback-enabled transaction carries
\* exactly one mark update, also with LoopbackControl and the plugin both on
C9_Claim ==
    \A r \in RunIds : (runs[r].st = "committed" /\ LoopbackEnabled(r)) =>
        Len(runs[r].marks) = 1

\* C10: when the mark update of begin failed or updated no row, the
\* transaction is rolled back, no handle is returned but the mark error, no
\* hook and no statement runs for it and nothing of it is committed
C10_MarkFailure ==
    \A r \in RunIds : runs[r].markFailed =>
        /\ info.LoopbackControl
        /\ ~runs[r].tx
        /\ runs[r].st = "rolledback"
        /\ runs[r].ret = Err("failed to update mark data", r)
        /\ runs[r].issued = << >> /\ runs[r].stmts = << >>
        /\ runs[r].calls = << >>
        /\ ~runs[r].visible
        /\ \A i \in 1..Len(tasks) : tasks[i].run # r

\* a call returned after a begin whose mark update found no row
C10_Witness ==
    /\ pc = "done"
    /\ faults = MaxFaultsLoopback
    /\ \E r \in RunIds : runs[r].markFailed

\* the invocations whose ExecutorExtend hook chain ended with an error
HookFailed(r) == runs[r].hookErr # ""

\* C11 as stated: after a hook returned an error no later hook is invoked,
\* the hook's error is not what the invocation returns, and the business
\* statements run in the same, still live, transaction, which is committed
C11_Claim ==
    \A r \in RunIds : HookFailed(r) =>
        /\ runs[r].calls = SubSeq(info.Hooks, 1, Len(runs[r].calls))
        /\ runs[r].ret[1] # runs[r].hookErr
        /\ runs[r].ret = Running => runs[r].st = "open"
        /\ (runs[r].ret # Running /\ faults = MaxFaultsLoopback) => runs[r].st = "committed"

\* the number of statements a DML stands for in singleExec
StmtCount(dml, safeMode) == IF safeMode /\ dml.Tp = UpdateDMLType THEN 2 ELSE 1

\* the number of statements of the DMLs before the i-th
Offset(dmls, i, safeMode) ==
    (i - 1) + Cardinality({ j \in 1..(i - 1) : safeMode /\ dmls[j].Tp = UpdateDMLType })

\* the n-th statement singleExec is to issue for dmls: the DML it belongs to
\* and its place among that DML's statements decide it
ExpectedStmt(dmls, n, safeMode) ==
    LET i == CHOOSE x \in 1..Len(dmls) :
                 Offset(dmls, x, safeMode) < n
                 /\ n <= Offset(dmls, x, safeMode) + StmtCount(dmls[x], safeMode)
        d == dmls[i]
        first == n = Offset(dmls, i, safeMode) + 1
        op == IF safeMode
              THEN CASE d.Tp = UpdateDMLType -> (IF first THEN "DELETE" ELSE "REPLACE")
                     [] d.Tp = InsertDMLType -> "REPLACE"
                     [] OTHER -> "DELETE"
              ELSE CASE d.Tp = UpdateDMLType -> "UPDATE"
                     [] d.Tp = InsertDMLType -> "INSERT"
                     [] OTHER -> "DELETE"
    IN  [op |-> op, key |-> d.key, val |-> d.val]

\* C12: an invocation of singleExec has the whole batch in its one
\* transaction and issues, DML by DML in input order, with safeMode the
\* DELETE then the REPLACE of an Update, the REPLACE of an Insert and the
\* DELETE of a Delete, without safeMode each DML's own statement; it stops
\* at the first statement that fails
C12_SingleExecOrder ==
    \A r \in RunIds : runs[r].fn = "singleExec" =>
        LET dmls == runs[r].dmls
            total == Offset(dmls, Len(dmls) + 1, call.safeMode)
        IN  /\ dmls = Batches[runs[r].batch]
            /\ Len(runs[r].issued) <= total
            /\ \A n \in 1..Len(runs[r].issued) :
                  runs[r].issued[n] = ExpectedStmt(dmls, n, call.safeMode)
            /\ runs[r].stmtOK => Len(runs[r].issued) = total
            /\ \A q \in RunIds :
                  (q # r /\ runs[q].batch = runs[r].batch /\ runs[q].att = runs[r].att) => FALSE

\* a committed safe-mode transaction of an Update followed by an Insert
C12_Witness ==
    /\ call.safeMode
    /\ \E r \in RunIds :
          /\ runs[r].fn = "singleExec" /\ runs[r].st = "committed"
          /\ Len(runs[r].dmls) = 2
          /\ runs[r].dmls[1].Tp = UpdateDMLType /\ runs[r].dmls[2].Tp = InsertDMLType
          /\ Len(runs[r].issued) = 3

\* C13: once a DML list has been applied by singleExec in safe mode,
\* applying it again, any number of times, leaves the rows as they were
\* after the first application, whatever rows were there to begin with
C13_SafeModeIdempotent ==
    (call.safeMode /\ applied.n >= 1) => db = applied.once

\* an input of several batches with an Update and an Insert, applied
\* MaxApply times to a downstream with old rows, which it changed
C13_Witness ==
    /\ call.safeMode /\ applied.n = MaxApply
    /\ Len(Batches) >= 2
    /\ \E i, j \in 1..Len(allDMLs) :
          allDMLs[i].Tp = UpdateDMLType /\ allDMLs[j].Tp = InsertDMLType
    /\ \E k \in Keys : applied.init[k] = OldVal /\ db[k] # OldVal
    /\ db # applied.init

\* C14 as stated: after a DML was recovered (its table's info refreshed and
\* rebound), every column its values are keyed by is a column of its info
C14_Claim ==
    drift.st = "recovered" => drift.Values \subseteq drift.columns

\* C15: singleExecRetry takes the batches of its input in order and one
\* invocation at a time; each batch starts with attempt 1 and has at most N;
\* a batch is begun only after every earlier batch committed; after a batch's
\* N-th failure the call returns that error, no later batch is attempted and
\* the earlier batches are committed
C15_BatchesInOrder ==
    call.fn = "singleExecRetry" =>
        /\ \A r \in RunIds :
              /\ runs[r].batch \in 1..Len(Batches)
              /\ runs[r].dmls = Batches[runs[r].batch]
              /\ runs[r].att \in 1..call.retryNum
              /\ runs[r].att = 1 \/ \E q \in 1..(r - 1) :
                    /\ runs[q].batch = runs[r].batch
                    /\ runs[q].att = runs[r].att - 1
                    /\ Failed(q)
              /\ \A q \in 1..(r - 1) :
                    /\ runs[q].ret # Running
                    /\ runs[q].batch <= runs[r].batch
                    /\ runs[q].batch = runs[r].batch => runs[q].att < runs[r].att
              /\ \A b \in 1..(runs[r].batch - 1) : \E q \in 1..(r - 1) :
                    runs[q].batch = b /\ runs[q].st = "committed" /\ runs[q].ret = Nil
        /\ (pc = "done" /\ result # Nil) =>
              /\ \A r \in RunIds : runs[r].batch <= batchIdx
              /\ \A b \in 1..(batchIdx - 1) : \E q \in RunIds :
                    runs[q].batch = b /\ runs[q].st = "committed" /\ runs[q].visible
              /\ result # CtxErr =>
                    /\ attempt = call.retryNum
                    /\ \E q \in RunIds : /\ runs[q].batch = batchIdx
                                         /\ runs[q].att = call.retryNum
                                         /\ runs[q].ret = result
        /\ (pc = "done" /\ result = Nil) => batchIdx = Len(Batches)

\* the second of three batches failed N > 1 times after the first committed:
\* the call returned its error and the third was never attempted
C15_Witness ==
    /\ call.fn = "singleExecRetry" /\ call.retryNum > 1
    /\ pc = "done" /\ result # Nil /\ result # CtxErr
    /\ Len(Batches) = 3 /\ batchIdx = 2
    /\ \E q \in RunIds : runs[q].batch = 1 /\ runs[q].st = "committed"
    /\ \E q \in RunIds : runs[q].batch = 2 /\ runs[q].att = call.retryNum /\ Failed(q)

\* the DMLs of the input on key k, in arrival order
OpsOn(k) == SelectSeq(allDMLs, LAMBDA d : d.key = k)

\* the rows of the collapse table as <<prior, next, result>>
CollapseRows ==
    { <<InsertDMLType, UpdateDMLType, InsertDMLType>>,
      <<InsertDMLType, DeleteDMLType, "none">>,
      <<UpdateDMLType, UpdateDMLType, UpdateDMLType>>,
      <<UpdateDMLType, DeleteDMLType, DeleteDMLType>>,
      <<DeleteDMLType, InsertDMLType, UpdateDMLType>> }

\* the operation the table leaves of the first n operations on a key
RECURSIVE Collapsed(_, _)
Collapsed(ops, n) ==
    IF n = 0 THEN "none"
    ELSE LET prior == Collapsed(ops, n - 1)
         IN  IF prior = "none" THEN ops[n].Tp
             ELSE (CHOOSE row \in CollapseRows : row[1] = prior /\ row[2] = ops[n].Tp)[3]

\* execTableBatch has merged its input without a conflict
MergeDone == TableCall /\ pc = "split" /\ phase = "del"

InsUpdDel(k) ==
    /\ TableCall
    /\ Len(OpsOn(k)) = 3
    /\ OpsOn(k)[1].Tp = InsertDMLType
    /\ OpsOn(k)[2].Tp = UpdateDMLType
    /\ OpsOn(k)[3].Tp = DeleteDMLType

\* the invocations of fn whose DMLs include key k and that issued a statement
StmtRuns(fn, k) ==
    { r \in RunIds : runs[r].fn = fn /\ k \in RunKeys(r) /\ Len(runs[r].issued) > 0 }

TaskDMLs == [i \in 1..Len(tasks) |-> tasks[i].dmls]

\* chunks are contiguous chunks of list in order: their concatenation is the
\* list and each holds between 1 and n DMLs
IsSplit(chunks, list, n) ==
    /\ Flatten(chunks) = list
    /\ \A i \in 1..Len(chunks) : Len(chunks[i]) \in 1..n

\* C18: the sub-batches of a DML list are contiguous chunks whose
\* concatenation in order is the list, each of 1 to batchSize DMLs: the
\* batches of singleExecRetry split the input, the goroutines of a fan-out
\* are handed the chunks of the bucket, one each, so that every DML of the
\* bucket is in exactly one sub-batch and no two goroutines share a DML.
C18_SplitPartition ==
    /\ pc = "idle" => IsSplit(Batches, allDMLs, e.batchSize)
    /\ (pc = "wait" /\ phase = "single") => TaskDMLs = <<Batches[batchIdx]>>
    /\ (pc = "wait" /\ phase # "single")
        => /\ IsSplit(TaskDMLs, Bucket(Merged.types, phase), e.batchSize)
           /\ \A i, j \in 1..Len(tasks) :
                i # j => Range(tasks[i].dmls) \cap Range(tasks[j].dmls) = {}

\* three inserts of distinct keys with batchSize 2: two goroutines in
\* flight at once, one with two DMLs and one with the third
C18_Witness ==
    /\ pc = "wait"
    /\ phase = "ins"
    /\ e.batchSize = 2
    /\ Len(tasks) = 2
    /\ Len(tasks[1].dmls) = 2
    /\ Len(tasks[2].dmls) = 1
    /\ tasks[1].st = "begun"
    /\ tasks[2].st = "begun"
    /\ Len(allDMLs) = 3

\* ---------------------------------------------------------------- C19
\* the mark table as initMarkTableData leaves it
MarkTableInit == [id \in MarkRows |-> 1]

\* C19: empty input is a no-op. execTableBatch, bulkDelete and bulkReplace
\* called with an empty list begin no transaction, leave Index and the mark
\* table alone and return nil; no bulk operation ever begins a transaction
\* for an empty list, and a bucket that is empty after the merge starts no
\* invocation.
C19_EmptyNoOp ==
    /\ Len(allDMLs) = 0
        => /\ runs = << >>
           /\ info.Index = 0
           /\ markTable = MarkTableInit
           /\ pc = "done" => result = Nil
    /\ \A r \in RunIds : Len(runs[r].dmls) > 0
    /\ (TableCall /\ Len(runs) > 0)
        => \A r \in RunIds : Len(Bucket(Merged.types, runs[r].phase)) > 0

\* bulkReplace was called directly with an empty list while the loopback
\* control is on, and has returned nil
C19_Witness ==
    /\ call.fn = "bulkReplace"
    /\ Len(allDMLs) = 0
    /\ info.LoopbackControl
    /\ pc = "done"
    /\ result = Nil
    /\ tasks[1].st = "done"

\* ---------------------------------------------------------------- C20
\* the transaction at the filter writes the mark table: one of its DMLs has
\* the table name MarkTableName, compared case-insensitively
HasMarkWrite ==
    /\ ~filter.txn.isNil
    /\ ~filter.info.isNil
    /\ \E i \in 1..Len(filter.txn.DMLs) :
          Lower(filter.txn.DMLs[i].Table) = Lower(filter.info.MarkTableName)

\* C20: for every transaction with a write to the mark table, FilterTxn
\* returns a nil transaction and a nil error, whatever its origin address and
\* whether it carries a DDL, and none of its DMLs reaches the executor.
C20_EchoFiltered ==
    (filter.st # "none" /\ filter.st # "received" /\ HasMarkWrite)
        => /\ filter.st \in {"filtered", "dropped"}
           /\ filter.out.txn = NilTxn
           /\ filter.out.err = Nil
           /\ filter.toExecutor = << >>

\* a transaction with a write to another table and a write to the mark table
\* spelled in another case than MarkTableName, from a migration address, was
\* dropped
C20_Witness ==
    /\ filter.st = "dropped"
    /\ HasMarkWrite
    /\ ~filter.txn.DDL
    /\ Len(filter.txn.DMLs) = 2
    /\ filter.txn.DMLs[1].Table = "t1"
    /\ filter.txn.DMLs[2].Table = "MARK"
    /\ filter.info.MarkTableName = "mark"
    /\ filter.txn.Ip = "ip1"
    /\ filter.info.MigrationIPs = <<"ip1">>

\* ---------------------------------------------------------------- C21
\* the origin address of the transaction at the filter is one of the
\* configured migration addresses
FromMigrationIP ==
    /\ ~filter.txn.isNil
    /\ ~filter.info.isNil
    /\ \E i \in 1..Len(filter.info.MigrationIPs) :
          Lower(filter.txn.Ip) = Lower(filter.info.MigrationIPs[i])

\* FilterTxn has run on the transaction
Filtered == filter.st \notin {"none", "received"}

\* the process was aborted in FilterTxn
Aborted == filter.st \in {"fatal", "panic"}

\* C21 as stated: for every transaction whose origin address is a migration
\* address the process aborts in FilterTxn, and the transaction is neither
\* returned for apply nor dropped.
C21_Claim ==
    (Filtered /\ FromMigrationIP) => Aborted

\* C21 amended: for every transaction without a DDL and without a write to
\* the mark table whose origin address is a migration address (compared
\* case-insensitively), the process aborts in FilterTxn, and the transaction
\* is neither returned for apply nor dropped; a DDL transaction and one that
\* writes the mark table are dropped before the addresses are looked at.
C21_CyclicTrip ==
    /\ (Filtered /\ FromMigrationIP /\ ~filter.txn.DDL /\ ~HasMarkWrite)
        => /\ Aborted
           /\ filter.toExecutor = << >>
    /\ (Filtered /\ FromMigrationIP /\ (filter.txn.DDL \/ HasMarkWrite))
        => /\ filter.st \in {"filtered", "dropped"}
           /\ filter.out.txn = NilTxn
           /\ filter.out.err = Nil

\* a transaction with one DML of an ordinary table, from the second of two
\* migration addresses spelled in another case, ended the process
C21_Witness ==
    /\ filter.st = "fatal"
    /\ ~filter.txn.DDL
    /\ Len(filter.txn.DMLs) = 1
    /\ filter.txn.DMLs[1].Table = "t1"
    /\ filter.txn.Ip = "IP1"
    /\ filter.info.MigrationIPs = <<"ip2", "ip1">>

\* ---------------------------------------------------------------- C22
\* the sql transaction is finished: committed, rolled back, or ended by a
\* Commit that failed
TxEnded(st) == st \in {"committed", "rolledback", "commitfailed"}

\* C22: every transaction opened by begin is finished, by a commit or a
\* rollback, when bulkDelete, bulkReplace or singleExec returns, on every
\* path (statement error, hook error, mark-update error, commit error,
\* success); a finished transaction never changes its state again, and only
\* a committed one is visible downstream.
C22_TxLifecycle ==
    [][\A r \in 1..Len(runs') :
          /\ (runs'[r].ret # Running /\ runs'[r].st # "none") => TxEnded(runs'[r].st)
          /\ runs'[r].visible => runs'[r].st = "committed"
          /\ (r <= Len(runs) /\ TxEnded(runs[r].st)) => runs'[r].st = runs[r].st]_vars

\* an invocation whose transaction the loopback hook rolled back has
\* returned the error of its first statement, after an invocation that
\* returned the error of its mark update
C22_Witness ==
    \E r, q \in RunIds :
        /\ runs[r].hookErr = "fail to update mark"
        /\ runs[r].st = "rolledback"
        /\ runs[r].ret = Err("exec", r)
        /\ runs[q].markFailed
        /\ runs[q].st = "rolledback"
        /\ runs[q].ret # Running

\* ---------------------------------------------------------------- C23
\* the invocations whose begin updated, or tried to update, a mark row
MarkedRuns == { r \in RunIds : runs[r].markId # NoMark }

\* C23 as stated: the begin calls obtain distinct values of Index, and the
\* id each uses, Index mod workerCount, is the id of a pre-seeded row of the
\* mark table, for every workerCount and RecordID; with workerCount = 1 it
\* is 0.
C23_Claim ==
    /\ \A r, q \in MarkedRuns : r # q => runs[r].Index # runs[q].Index
    /\ \A r \in MarkedRuns :
          /\ runs[r].markId \in MarkRows
          /\ e.workerCount = 1 => runs[r].markId = 0

\* ---------------------------------------------------------------- C24
\* C24 as stated: on a transaction that has been rolled back the executor
\* issues no statement and attempts no commit; in particular none after the
\* loopback plugin's ExtendTxn failed and rolled the transaction back.
C24_Claim ==
    [][\A r \in RunIds :
          runs[r].st = "rolledback"
              => /\ runs'[r].issued = runs[r].issued
                 /\ runs'[r].ret = Err("commit", r) => runs[r].ret = Err("commit", r)]_vars

\* ---------------------------------------------------------------- C25
\* C25 as stated: an executor whose info is nil applies its input through
\* bulkDelete, bulkReplace and singleExec without faulting: begin updates no
\* mark row, no hook is called, and every invocation ends with its
\* transaction committed or with an error and the transaction finished.
C25_Claim ==
    info.isNil
        => /\ pc # "panic"
           /\ \A r \in RunIds :
                /\ runs[r].markId = NoMark
                /\ runs[r].calls = << >>
                /\ runs[r].ret \in {Running, Nil} \/ runs[r].ret[1] \in {"begin", "exec", "commit"}
                /\ (runs[r].ret # Running /\ runs[r].tx) => TxEnded(runs[r].st)

\* ---------------------------------------------------------------- C26
\* the transaction at the filter is no echo and comes from no migration
\* address
NoEcho ==
    /\ Filtered
    /\ ~filter.txn.isNil
    /\ ~filter.info.isNil
    /\ ~HasMarkWrite
    /\ ~FromMigrationIP

\* C26 as stated: every transaction without a write to the mark table and
\* from no migration address, DDL transactions included, is returned by
\* FilterTxn with a nil error, its DDL and its DMLs unchanged.
C26_Claim ==
    NoEcho => /\ filter.out.txn = filter.txn
              /\ filter.out.err = Nil

\* C26 amended: every transaction without a DDL, without a write to the
\* mark table and from no migration address is returned by FilterTxn for
\* apply with a nil error, its DMLs in order with table and values unchanged
\* and the schema name of each set to the empty string; a DDL transaction is
\* dropped (nil, nil) and nothing of it is applied.
C26_PassThrough ==
    NoEcho =>
        IF filter.txn.DDL
        THEN /\ filter.st \in {"filtered", "dropped"}
             /\ filter.out.txn = NilTxn
             /\ filter.out.err = Nil
             /\ filter.toExecutor = << >>
        ELSE /\ filter.st \in {"filtered", "applied"}
             /\ filter.out.err = Nil
             /\ ~filter.out.txn.isNil
             /\ ~filter.out.txn.DDL
             /\ filter.out.txn.Ip = filter.txn.Ip
             /\ filter.out.txn.Metadata = filter.txn.Metadata
             /\ Len(filter.out.txn.DMLs) = Len(filter.txn.DMLs)
             /\ \A i \in 1..Len(filter.txn.DMLs) :
                   /\ filter.out.txn.DMLs[i].Table = filter.txn.DMLs[i].Table
                   /\ filter.out.txn.DMLs[i].Values = filter.txn.DMLs[i].Values
                   /\ filter.out.txn.DMLs[i].Database = ""
             /\ filter.st = "applied" => filter.toExecutor = filter.out.txn.DMLs

\* a transaction of two DMLs of an ordinary table from an address that is
\* not a migration address was handed to the executor with the schema names
\* emptied
C26_Witness ==
    /\ filter.st = "applied"
    /\ Len(filter.txn.DMLs) = 2
    /\ filter.txn.DMLs[1].Database = "d1"
    /\ filter.txn.Ip = "ip2"
    /\ filter.info.MigrationIPs = <<"ip1">>
    /\ Len(filter.toExecutor) = 2
    /\ filter.toExecutor[1].Database = ""
    /\ filter.toExecutor[2].Table = "t1"
    /\ filter.toExecutor[2].Values = 2

\* ---------------------------------------------------------------- C27
\* C27: when run has published the syncer's error, the loader's Run has
\* returned and the published error is its error, every transaction the
\* loader sent on Successes was forwarded to the success channel in the
\* order received, the success channel is closed, and nothing was forwarded
\* after the error was published.
C27_ErrAfterDrain ==
    (syncer.st = "run" /\ syncer.errCh)
        => /\ syncer.Run # Running
           /\ syncer.err = syncer.Run
           /\ syncer.Successes = << >>
           /\ syncer.sent = syncer.emitted
           /\ syncer.successClosed
           /\ ~syncer.sentAfterErr

\* the loader ended with an error after three transactions, all were
\* forwarded, and the error is published with one item still in the success
\* channel
C27_Witness ==
    /\ syncer.st = "run"
    /\ syncer.errCh
    /\ syncer.err = RunErr
    /\ syncer.sent = <<1, 2, 3>>
    /\ Len(syncer.success) = 1

\* ---------------------------------------------------------------- C28
\* C28 as stated: Close returns the loader's error when it is not nil, and
\* otherwise the relayer's close error, nil without a relayer; a loader
\* error is never replaced by nil.
C28_Claim ==
    (syncer.st = "run" /\ syncer.cpc = "returned")
        => syncer.ret = IF syncer.err # Nil THEN syncer.err
                        ELSE IF syncer.relayer THEN syncer.closeRelayerErr
                        ELSE Nil
====
